---------------------------- MODULE Spec2Model ----------------------------
(***************************************************************************)
(* A model of catmon_img_tag_app.py: the session bookkeeping (tag totals,  *)
(* consecutive-tag streak, one-level undo), the moves of image files       *)
(* between google drive folders, and the loop that loads the next image    *)
(* to tag (duplicate guard and auto-discard of dark images).               *)
(*                                                                         *)
(* One streamlit session is modelled.  Every run of the script executes    *)
(* the image loop (pc = "loop") until an image is shown with the buttons   *)
(* (pc = "ready") or the run ends with an uncaught exception               *)
(* (pc = "stopped").  A button click runs its callback (tag_image or       *)
(* undo_tag_image) and then the script runs again from the top.            *)
(***************************************************************************)
EXTENDS Integers, FiniteSets, Sequences, TLC

(***************************************************************************)
(* Bounds of the model.                                                    *)
(***************************************************************************)
\* number of image files in the root folder when the session starts
NumImages == 3
\* number of button clicks that change the session data (successful tags and
\* undos by the user)
MaxClicks == 3
\* number of listings, in the session, that may still show the image that was
\* last moved out of the root folder
MaxStale == 3

(***************************************************************************)
(* Program constants.                                                      *)
(***************************************************************************)
None == "None"

CATMON_PICS_FOLDER_ID == "catmon-pics"

tag_folder_ids_d ==
    [Boo |-> "boo_images", Simba |-> "simba_images",
     Discard |-> "discard_images"] @@ ("Auto-Discard" :> "auto_discard_images")

TagNames == DOMAIN tag_folder_ids_d

StatNames == TagNames \cup {"Undo"}

\* the three tag buttons of the page
ButtonTags == {"Boo", "Simba", "Discard"}

IMAGE_BRIGHTNESS_THRESHOLD == 25

\* the duplicate guard requests another image while duplicate < 3
DUPLICATE_LIMIT == 3

(***************************************************************************)
(* The image files: drive file ids, their names and their contents.        *)
(***************************************************************************)
AllIds == <<"id1", "id2", "id3", "id4", "id5", "id6">>

Images == {AllIds[i] : i \in 1..NumImages}

NameOf(id) == "catmon-" \o id \o ".jpg"

\* mean (r, g, b) of the images that can be in the root folder: uniform grey
\* images on both sides of the brightness threshold
Palette == {<<25, 25, 25>>, <<26, 26, 26>>}

VARIABLES
    session_state,  \* st.session_state: stats, consec, previous_tag
    drive,          \* drive[id]: the set of parent folders of file id
    rgb,            \* rgb[id]: ImageStat.Stat(image).mean of file id
    pc,             \* "loop", "ready" or "stopped"
    duplicate,      \* the loop's duplicate counter
    image_id,       \* the image the buttons are bound to
    lagging,        \* the image whose move out of root the listing may not show yet
    staleLeft,      \* stale listings the drive may still give
    clicksLeft,     \* successful tags and undos the user may still make
    last,           \* history: the last operation, its result and the state before it
    tagged,         \* history: a tag succeeded since the last successful undo
    nTag,           \* history: successful tag_image calls per tag
    nUndo,          \* history: successful undo_tag_image calls
    userTag,        \* history: the tag made by the user's latest click, if it was one
    lastTagItem,    \* history: the last successful tag_image call and stats before it
    dupFetches      \* history: duplicate fetches of one image in this run of the loop

vars == <<session_state, drive, rgb, pc, duplicate, image_id, lagging,
          staleLeft, clicksLeft, last, tagged, nTag, nUndo, userTag,
          lastTagItem, dupFetches>>

(***************************************************************************)
(* Initial session data (lines 63-98).                                     *)
(***************************************************************************)
stats_d == [t \in StatNames |-> 0]

consec_d == [name |-> None, tot |-> 0]

previous_tag_d == [image_name |-> None, image_id |-> None, tag_name |-> None]

NoUserTag == [image_id |-> None, tag_name |-> None]

NoDupFetches == [image_id |-> None, n |-> 0]

\* the files are interchangeable for the listing, which returns any file of
\* the root folder: their ids are given with the darker files first
SortedImages ==
    {f \in [Images -> Palette] :
        \A i \in 1..(NumImages - 1) : f[AllIds[i]][1] <= f[AllIds[i + 1]][1]}

\* the session starts with the root folder holding the images of one element
\* of files, and with a drive that may still give stale listings, stale times
InitSession(files, stale) ==
    /\ session_state = [stats |-> stats_d, consec |-> consec_d,
                        previous_tag |-> previous_tag_d]
    /\ drive = [id \in Images |-> {CATMON_PICS_FOLDER_ID}]
    /\ rgb \in files
    /\ pc = "loop"
    /\ duplicate = 0
    /\ image_id = None
    /\ lagging = None
    /\ staleLeft = stale
    /\ clicksLeft = MaxClicks
    /\ last = [op |-> "init", result |-> "ok", image_id |-> None,
               tag_name |-> None, pre |-> session_state, preDrive |-> drive,
               preTagged |-> FALSE, preUserTag |-> NoUserTag]
    /\ tagged = FALSE
    /\ nTag = [t \in TagNames |-> 0]
    /\ nUndo = 0
    /\ userTag = NoUserTag
    /\ lastTagItem = [image_id |-> None, tag_name |-> None, stats |-> stats_d]
    /\ dupFetches = NoDupFetches

Init == InitSession(SortedImages, MaxStale)

(***************************************************************************)
(* google drive: files().update(fileId, addParents, removeParents).        *)
(***************************************************************************)
DriveUpdate(parents, addParents, removeParents) ==
    (parents \ removeParents) \cup {addParents}

(***************************************************************************)
(* tag_image: the move of the image from its current parent folders to the *)
(* folder of the tag (lines 164-178).                                      *)
(***************************************************************************)
\* a variant that adds the folder of the tag and removes no parent
TagMove_add_only(drv, id, tag_name) ==
    [drv EXCEPT ![id] = @ \cup {tag_folder_ids_d[tag_name]}]

TagMove(drv, id, tag_name) ==
    LET curr_parent_folder_id == drv[id]
        new_parent_folder_id == tag_folder_ids_d[tag_name]
    IN  [drv EXCEPT ![id] = DriveUpdate(@, new_parent_folder_id,
                                        curr_parent_folder_id)]

(***************************************************************************)
(* tag_image: the session data after a successful move (lines 184-196).    *)
(***************************************************************************)
\* a variant that never starts a new streak
ConsecAfterTag_no_reset(consec, tag_name) ==
    [name |-> tag_name, tot |-> consec.tot + 1]

ConsecAfterTag(consec, tag_name) ==
    IF tag_name = consec.name
    THEN [consec EXCEPT !.tot = @ + 1]
    ELSE [name |-> tag_name, tot |-> 1]

\* a variant that sets the total instead of adding to it
StatsAfterTag_set_to_one(stats, tag_name) == [stats EXCEPT ![tag_name] = 1]

StatsAfterTag(stats, tag_name) == [stats EXCEPT ![tag_name] = @ + 1]

\* a variant that does not store the image id
PreviousAfterTag_no_id(image_name, id, tag_name) ==
    [image_name |-> image_name, image_id |-> None, tag_name |-> tag_name]

PreviousAfterTag(image_name, id, tag_name) ==
    [image_name |-> image_name, image_id |-> id, tag_name |-> tag_name]

TagSession(ss, image_name, id, tag_name) ==
    [stats |-> StatsAfterTag(ss.stats, tag_name),
     consec |-> ConsecAfterTag(ss.consec, tag_name),
     previous_tag |-> PreviousAfterTag(image_name, id, tag_name)]

(***************************************************************************)
(* tag_image(image_name, image_id, tag_name).  outcome is what the drive   *)
(* service does: "ok", "move_failed" (files().update raises, the except    *)
(* clause reports it and returns) or "raised" (files().get raises, which   *)
(* nothing catches).  The result is the session data and the drive after   *)
(* the call.                                                               *)
(***************************************************************************)
\* a variant in which the except clause does not return
tag_image_no_return(ss, drv, image_name, id, tag_name, outcome) ==
    IF outcome = "raised"
    THEN [ss |-> ss, drv |-> drv]
    ELSE [ss |-> TagSession(ss, image_name, id, tag_name),
          drv |-> IF outcome = "ok" THEN TagMove(drv, id, tag_name) ELSE drv]

tag_image(ss, drv, image_name, id, tag_name, outcome) ==
    IF outcome # "ok"
    THEN [ss |-> ss, drv |-> drv]
    ELSE [ss |-> TagSession(ss, image_name, id, tag_name),
          drv |-> TagMove(drv, id, tag_name)]

(***************************************************************************)
(* undo_tag_image: the move of the previous tag's image from the folder of *)
(* its tag back to the root folder (lines 207-220).                        *)
(***************************************************************************)
\* a variant that adds the root folder and removes no parent
UndoMove_no_remove(drv, previous_tag) ==
    [drv EXCEPT ![previous_tag.image_id] =
        DriveUpdate(@, CATMON_PICS_FOLDER_ID, {})]

UndoMove(drv, previous_tag) ==
    LET curr_parent_folder_id == tag_folder_ids_d[previous_tag.tag_name]
        new_parent_folder_id == CATMON_PICS_FOLDER_ID
    IN  [drv EXCEPT ![previous_tag.image_id] =
            DriveUpdate(@, new_parent_folder_id, {curr_parent_folder_id})]

(***************************************************************************)
(* undo_tag_image: the session data after the move (lines 223-233).        *)
(***************************************************************************)
\* a variant that does not count the undo
StatsAfterUndo_no_undo_count(stats, tag_name) ==
    [stats EXCEPT ![tag_name] = @ - 1]

StatsAfterUndo(stats, tag_name) ==
    [stats EXCEPT ![tag_name] = @ - 1, !["Undo"] = @ + 1]

\* a variant that does not start the "Undo" streak
ConsecAfterUndo_no_reset(consec) == [consec EXCEPT !.tot = @ - 1]

\* a variant that names the "Undo" streak and leaves its length at 0
ConsecAfterUndo_zero(consec) ==
    IF consec.tot - 1 = 0
    THEN [name |-> "Undo", tot |-> 0]
    ELSE [consec EXCEPT !.tot = @ - 1]

ConsecAfterUndo(consec) ==
    IF consec.tot - 1 = 0
    THEN [name |-> "Undo", tot |-> 1]
    ELSE [consec EXCEPT !.tot = @ - 1]

\* a variant that leaves the previous tag in place
PreviousAfterUndo_not_cleared(previous_tag) == previous_tag

PreviousAfterUndo(previous_tag) ==
    [image_name |-> None, image_id |-> None, tag_name |-> None]

\* a variant that does not take the undone tag off its total
UndoSession_no_decrement(ss) ==
    [stats |-> [ss.stats EXCEPT !["Undo"] = @ + 1],
     consec |-> ConsecAfterUndo(ss.consec),
     previous_tag |-> PreviousAfterUndo(ss.previous_tag)]

UndoSession(ss) ==
    [stats |-> StatsAfterUndo(ss.stats, ss.previous_tag.tag_name),
     consec |-> ConsecAfterUndo(ss.consec),
     previous_tag |-> PreviousAfterUndo(ss.previous_tag)]

\* the guard of undo_tag_image (lines 203-205)
NothingToUndo(ss) == ss.previous_tag.image_name = None

(***************************************************************************)
(* undo_tag_image().  outcome is "ok" or "raised" (files().update raises;  *)
(* undo_tag_image has no except clause).                                   *)
(***************************************************************************)
undo_tag_image(ss, drv, outcome) ==
    IF NothingToUndo(ss) \/ outcome # "ok"
    THEN [ss |-> ss, drv |-> drv]
    ELSE [ss |-> UndoSession(ss), drv |-> UndoMove(drv, ss.previous_tag)]

(***************************************************************************)
(* Natural numbers of any size, as the sequence of their digits in base    *)
(* Radix with the lowest digit first and no leading zero digit.  The       *)
(* mantissa of a python float is such a number.                            *)
(***************************************************************************)
Radix == 2 ^ 15

RECURSIVE Limbs(_)
Limbs(n) == IF n = 0 THEN <<>> ELSE <<n % Radix>> \o Limbs(n \div Radix)

RECURSIVE Trim(_)
Trim(a) ==
    IF a = <<>> THEN <<>>
    ELSE IF a[Len(a)] = 0 THEN Trim(SubSeq(a, 1, Len(a) - 1)) ELSE a

Limb(a, i) == IF i <= Len(a) THEN a[i] ELSE 0

RECURSIVE AddFrom(_, _, _, _)
AddFrom(a, b, i, carry) ==
    IF i > Len(a) /\ i > Len(b)
    THEN IF carry = 0 THEN <<>> ELSE <<carry>>
    ELSE LET sum == Limb(a, i) + Limb(b, i) + carry
         IN  <<sum % Radix>> \o AddFrom(a, b, i + 1, sum \div Radix)

BigAdd(a, b) == AddFrom(a, b, 1, 0)

RECURSIVE SubFrom(_, _, _, _)
SubFrom(a, b, i, borrow) ==
    IF i > Len(a) THEN <<>>
    ELSE LET d == Limb(a, i) - Limb(b, i) - borrow
         IN  IF d < 0 THEN <<d + Radix>> \o SubFrom(a, b, i + 1, 1)
             ELSE <<d>> \o SubFrom(a, b, i + 1, 0)

\* a - b for a >= b
BigSub(a, b) == Trim(SubFrom(a, b, 1, 0))

RECURSIVE LessFrom(_, _, _)
LessFrom(a, b, i) ==
    IF i = 0 THEN FALSE
    ELSE IF a[i] # b[i] THEN a[i] < b[i] ELSE LessFrom(a, b, i - 1)

BigLess(a, b) ==
    IF Len(a) # Len(b) THEN Len(a) < Len(b) ELSE LessFrom(a, b, Len(a))

\* a * k + carry from digit i on, for a digit k
RECURSIVE MulLimb(_, _, _, _)
MulLimb(a, k, i, carry) ==
    IF i > Len(a) THEN IF carry = 0 THEN <<>> ELSE <<carry>>
    ELSE LET prod == a[i] * k + carry
         IN  <<prod % Radix>> \o MulLimb(a, k, i + 1, prod \div Radix)

RECURSIVE MulFrom(_, _, _)
MulFrom(a, b, j) ==
    IF j > Len(b) THEN <<>>
    ELSE BigAdd(MulLimb(a, b[j], 1, 0), <<0>> \o MulFrom(a, b, j + 1))

BigMul(a, b) == Trim(MulFrom(a, b, 1))

\* a * 2^k
BigShl(a, k) ==
    IF a = <<>> THEN <<>>
    ELSE [i \in 1..(k \div 15) |-> 0] \o MulLimb(a, 2 ^ (k % 15), 1, 0)

\* a \div 2^k
BigShr(a, k) ==
    LET n == k \div 15
        s == k % 15
        high == IF n >= Len(a) THEN <<>> ELSE SubSeq(a, n + 1, Len(a))
    IN  Trim([i \in 1..Len(high) |->
                 (high[i] \div 2 ^ s)
                     + (Limb(high, i + 1) % 2 ^ s) * 2 ^ (15 - s)])

RECURSIVE BitsOf(_)
BitsOf(n) == IF n = 0 THEN 0 ELSE 1 + BitsOf(n \div 2)

BitLen(a) == IF a = <<>> THEN 0 ELSE 15 * (Len(a) - 1) + BitsOf(a[Len(a)])

\* <<a \div k, a % k>> for a digit k, from digit i down
RECURSIVE DivLimb(_, _, _, _)
DivLimb(a, k, i, rem) ==
    IF i = 0 THEN <<<<>>, rem>>
    ELSE LET cur == rem * Radix + a[i]
             low == DivLimb(a, k, i - 1, cur % k)
         IN  <<low[1] \o <<cur \div k>>, low[2]>>

\* the largest r with r * r <= n, found bit by bit from bit i down
WithBit(r, i) == BigAdd(r, BigShl(<<1>>, i))

RECURSIVE SqrtFrom(_, _, _)
SqrtFrom(n, r, i) ==
    IF i < 0 THEN r
    ELSE IF BigLess(n, BigMul(WithBit(r, i), WithBit(r, i)))
         THEN SqrtFrom(n, r, i - 1)
         ELSE SqrtFrom(n, WithBit(r, i), i - 1)

BigSqrt(n) == SqrtFrom(n, <<>>, BitLen(n) \div 2)

(***************************************************************************)
(* python floats (IEEE 754 binary64, round to nearest, ties to even): the  *)
(* float [m, e] is m * 2^e with 2^52 <= m < 2^53, and zero is [<<>>, 0].   *)
(* The numbers of brightness() are positive and far from the ends of the   *)
(* exponent range.                                                         *)
(***************************************************************************)
MantissaBits == 53

\* the float nearest to n * 2^e
RoundToFloat(n, e) ==
    LET len == BitLen(n)
        k == len - MantissaBits
    IN  IF n = <<>> THEN [m |-> <<>>, e |-> 0]
        ELSE IF k <= 0 THEN [m |-> BigShl(n, 0 - k), e |-> e + k]
        ELSE LET q == BigShr(n, k)
                 rest == BigSub(n, BigShl(q, k))
                 half == BigShl(<<1>>, k - 1)
                 up == \/ BigLess(half, rest)
                       \/ rest = half /\ q[1] % 2 = 1
                 m == IF up THEN BigAdd(q, <<1>>) ELSE q
             IN  IF BitLen(m) > MantissaBits
                 THEN [m |-> BigShr(m, 1), e |-> e + k + 1]
                 ELSE [m |-> m, e |-> e + k]

\* float(n) for a natural number n
FloatOfInt(n) == RoundToFloat(Limbs(n), 0)

\* the float of the decimal literal p / q, for a digit q
FloatOfRatio(p, q) ==
    LET d == DivLimb(BigShl(Limbs(p), 75), q, Len(BigShl(Limbs(p), 75)), 0)
        sticky == IF d[2] = 0 THEN <<>> ELSE <<1>>
    IN  RoundToFloat(BigAdd(BigShl(Trim(d[1]), 1), sticky), 0 - 76)

FloatMul(x, y) == RoundToFloat(BigMul(x.m, y.m), x.e + y.e)

FloatAdd(x, y) ==
    IF x.m = <<>> THEN y
    ELSE IF y.m = <<>> THEN x
    ELSE LET e == IF x.e < y.e THEN x.e ELSE y.e
         IN  RoundToFloat(BigAdd(BigShl(x.m, x.e - e), BigShl(y.m, y.e - e)), e)

\* math.sqrt: the square root of m * 2^e is taken on m * 2^s with e - s even
\* and 56 more bits, a last bit is set when the root is not exact
FloatSqrt(x) ==
    LET s == 56 + ((x.e - 56) % 2)
        n == BigShl(x.m, s)
        r == BigSqrt(n)
        sticky == IF BigMul(r, r) = n THEN <<>> ELSE <<1>>
    IN  IF x.m = <<>> THEN x
        ELSE RoundToFloat(BigAdd(BigShl(r, 1), sticky), ((x.e - s) \div 2) - 1)

\* x <= y
FloatLeq(x, y) ==
    LET e == IF x.e < y.e THEN x.e ELSE y.e
    IN  ~BigLess(BigShl(y.m, y.e - e), BigShl(x.m, x.e - e))

\* the float just below the float x > 0
FloatBelow(x) ==
    IF x.m = BigShl(<<1>>, MantissaBits - 1)
    THEN [m |-> BigSub(BigShl(<<1>>, MantissaBits), <<1>>), e |-> x.e - 1]
    ELSE [m |-> BigSub(x.m, <<1>>), e |-> x.e]

(***************************************************************************)
(* brightness(image_obj) (lines 272-286) on the channel means of the image.*)
(***************************************************************************)
R_CONST == FloatOfRatio(299, 1000)

G_CONST == FloatOfRatio(587, 1000)

B_CONST == FloatOfRatio(114, 1000)

\* a variant that returns the weighted sum of squares itself
brightness_no_sqrt(mean) ==
    LET r == FloatOfInt(mean[1])
        g == FloatOfInt(mean[2])
        b == FloatOfInt(mean[3])
    IN  FloatAdd(FloatAdd(FloatMul(R_CONST, FloatMul(r, r)),
                          FloatMul(G_CONST, FloatMul(g, g))),
                 FloatMul(B_CONST, FloatMul(b, b)))

brightness(mean) ==
    LET r == FloatOfInt(mean[1])
        g == FloatOfInt(mean[2])
        b == FloatOfInt(mean[3])
    IN  FloatSqrt(FloatAdd(FloatAdd(FloatMul(R_CONST, FloatMul(r, r)),
                                    FloatMul(G_CONST, FloatMul(g, g))),
                           FloatMul(B_CONST, FloatMul(b, b))))

(***************************************************************************)
(* brightness(image_obj) is sqrt(0.299 r^2 + 0.587 g^2 + 0.114 b^2) of the *)
(* mean channel values.  BrightnessSq is 1000 times its square, so that    *)
(* the comparison with the threshold is made on integers.                  *)
(***************************************************************************)
BrightnessSq(mean) ==
    299 * mean[1] * mean[1] + 587 * mean[2] * mean[2] + 114 * mean[3] * mean[3]

\* a variant that compares with < instead of <=
TooDark_strict(mean) ==
    BrightnessSq(mean)
        < 1000 * IMAGE_BRIGHTNESS_THRESHOLD * IMAGE_BRIGHTNESS_THRESHOLD

\* image_brightness <= IMAGE_BRIGHTNESS_THRESHOLD (line 320)
TooDark(mean) ==
    BrightnessSq(mean)
        <= 1000 * IMAGE_BRIGHTNESS_THRESHOLD * IMAGE_BRIGHTNESS_THRESHOLD

(***************************************************************************)
(* get_drive_image: the files the listing of the root folder can return.   *)
(* The listing may lag behind the latest move: it may still show the file  *)
(* that was last moved out of the root folder, at most MaxStale times in   *)
(* the session.                                                            *)
(***************************************************************************)
InRoot == {id \in Images : CATMON_PICS_FOLDER_ID \in drive[id]}

Listed == InRoot \cup (IF staleLeft > 0 THEN Images \cap {lagging} ELSE {})

StaleAfter(id) == IF id \in InRoot THEN staleLeft ELSE staleLeft - 1

\* the image the listing may lag on after a move of id to folder
LaggingAfter(id, folder, outcome) ==
    IF outcome # "ok" THEN lagging
    ELSE IF folder = CATMON_PICS_FOLDER_ID THEN None ELSE id

(***************************************************************************)
(* The duplicate guard of the image loop (lines 306-315).                  *)
(***************************************************************************)
IsDuplicate(id) == id = session_state.previous_tag.image_id

DuplicateAfter(id) == IF IsDuplicate(id) THEN duplicate + 1 ELSE duplicate

\* a variant that still requests another image at the limit
RequestAnother_at_limit(id) ==
    IsDuplicate(id) /\ DuplicateAfter(id) <= DUPLICATE_LIMIT

RequestAnother(id) == IsDuplicate(id) /\ DuplicateAfter(id) < DUPLICATE_LIMIT

\* dupFetches after the loop has fetched image id
DupFetchesAfter(id) ==
    IF IsDuplicate(id)
    THEN [image_id |-> id,
          n |-> IF dupFetches.image_id = id THEN dupFetches.n + 1 ELSE 1]
    ELSE dupFetches

(***************************************************************************)
(* History of the last operation.                                          *)
(***************************************************************************)
Record(op, result, id, tag_name) ==
    [op |-> op, result |-> result, image_id |-> id, tag_name |-> tag_name,
     pre |-> session_state, preDrive |-> drive, preTagged |-> tagged,
     preUserTag |-> userTag]

\* lastTagItem after tag_image(.., id, tag_name) with the given outcome
TagItemAfter(id, tag_name, outcome) ==
    IF outcome = "ok"
    THEN [image_id |-> id, tag_name |-> tag_name,
          stats |-> session_state.stats]
    ELSE lastTagItem

TagOutcomes == {"ok", "move_failed", "raised"}

UndoOutcomes == {"ok", "raised"}

\* an exception raised in a callback is shown by streamlit; whether the
\* script body then runs is left open
AfterCallback(outcome) ==
    IF outcome = "raised" THEN {"loop", "stopped"} ELSE {"loop"}

(***************************************************************************)
(* The image loop (lines 299-327), one action per iteration.               *)
(***************************************************************************)
\* files().list returns no file: response.get('files', [])[0] raises
FetchEmpty ==
    /\ pc = "loop"
    /\ Listed = {}
    /\ pc' = "stopped"
    /\ last' = Record("fetch", "empty", None, None)
    /\ UNCHANGED <<session_state, drive, rgb, duplicate, image_id, lagging,
                   staleLeft, clicksLeft, tagged, nTag, nUndo, userTag,
                   lastTagItem, dupFetches>>

\* a duplicate of the previous tag's image: request another
FetchDuplicate(id) ==
    /\ pc = "loop"
    /\ id \in Listed
    /\ RequestAnother(id)
    /\ duplicate' = DuplicateAfter(id)
    /\ staleLeft' = StaleAfter(id)
    /\ last' = Record("fetch", "duplicate", id, None)
    /\ dupFetches' = DupFetchesAfter(id)
    /\ UNCHANGED <<session_state, drive, rgb, pc, image_id, lagging, clicksLeft,
                   tagged, nTag, nUndo, userTag, lastTagItem>>

\* a dark image: tag_image(image_name, image_id, 'Auto-Discard'), loop again
FetchAutoDiscard(id, outcome) ==
    /\ pc = "loop"
    /\ id \in Listed
    /\ ~RequestAnother(id)
    /\ TooDark(rgb[id])
    /\ LET r == tag_image(session_state, drive, NameOf(id), id,
                          "Auto-Discard", outcome)
       IN  /\ session_state' = r.ss
           /\ drive' = r.drv
    /\ lagging' = LaggingAfter(id, tag_folder_ids_d["Auto-Discard"], outcome)
    /\ duplicate' = DuplicateAfter(id)
    /\ staleLeft' = StaleAfter(id)
    /\ pc' = IF outcome = "raised" THEN "stopped" ELSE "loop"
    /\ last' = Record("tag", outcome, id, "Auto-Discard")
    /\ tagged' = (tagged \/ outcome = "ok")
    /\ nTag' = IF outcome = "ok"
               THEN [nTag EXCEPT !["Auto-Discard"] = @ + 1] ELSE nTag
    /\ lastTagItem' = TagItemAfter(id, "Auto-Discard", outcome)
    /\ dupFetches' = DupFetchesAfter(id)
    /\ UNCHANGED <<rgb, image_id, clicksLeft, nUndo, userTag>>

\* an image that is bright enough: show it with the buttons
FetchReady(id) ==
    /\ pc = "loop"
    /\ id \in Listed
    /\ ~RequestAnother(id)
    /\ ~TooDark(rgb[id])
    /\ pc' = "ready"
    /\ image_id' = id
    /\ duplicate' = DuplicateAfter(id)
    /\ staleLeft' = StaleAfter(id)
    /\ last' = Record("fetch", "ready", id, None)
    /\ dupFetches' = DupFetchesAfter(id)
    /\ UNCHANGED <<session_state, drive, rgb, lagging, clicksLeft, tagged, nTag,
                   nUndo, userTag, lastTagItem>>

(***************************************************************************)
(* The buttons (lines 329-367): the callback runs, then the script runs    *)
(* again from the top (duplicate = 0).                                     *)
(***************************************************************************)
TagClick(tag_name, outcome) ==
    /\ pc = "ready"
    /\ outcome = "ok" => clicksLeft > 0
    /\ LET r == tag_image(session_state, drive, NameOf(image_id), image_id,
                          tag_name, outcome)
       IN  /\ session_state' = r.ss
           /\ drive' = r.drv
    /\ lagging' = LaggingAfter(image_id, tag_folder_ids_d[tag_name], outcome)
    /\ pc' \in AfterCallback(outcome)
    /\ duplicate' = 0
    /\ clicksLeft' = IF outcome = "ok" THEN clicksLeft - 1 ELSE clicksLeft
    /\ last' = Record("tag", outcome, image_id, tag_name)
    /\ tagged' = (tagged \/ outcome = "ok")
    /\ nTag' = IF outcome = "ok" THEN [nTag EXCEPT ![tag_name] = @ + 1] ELSE nTag
    /\ userTag' = IF outcome = "ok"
                  THEN [image_id |-> image_id, tag_name |-> tag_name]
                  ELSE NoUserTag
    /\ lastTagItem' = TagItemAfter(image_id, tag_name, outcome)
    /\ dupFetches' = NoDupFetches
    /\ UNCHANGED <<rgb, image_id, staleLeft, nUndo>>

UndoClick(outcome) ==
    /\ pc = "ready"
    /\ LET result == IF NothingToUndo(session_state) THEN "nothing" ELSE outcome
           r == undo_tag_image(session_state, drive, outcome)
       IN  /\ NothingToUndo(session_state) => outcome = "ok"
           /\ result = "ok" => clicksLeft > 0
           /\ session_state' = r.ss
           /\ drive' = r.drv
           /\ lagging' = LaggingAfter(session_state.previous_tag.image_id,
                                      CATMON_PICS_FOLDER_ID, result)
           /\ pc' \in AfterCallback(result)
           /\ clicksLeft' = IF result = "ok" THEN clicksLeft - 1 ELSE clicksLeft
           /\ last' = Record("undo", result,
                             session_state.previous_tag.image_id,
                             session_state.previous_tag.tag_name)
           /\ tagged' = (tagged /\ result # "ok")
           /\ nUndo' = IF result = "ok" THEN nUndo + 1 ELSE nUndo
    /\ duplicate' = 0
    /\ userTag' = NoUserTag
    /\ dupFetches' = NoDupFetches
    /\ UNCHANGED <<rgb, image_id, staleLeft, nTag, lastTagItem>>

\* the user asks streamlit to run the script again after it stopped
Rerun ==
    /\ pc = "stopped"
    /\ pc' = "loop"
    /\ duplicate' = 0
    /\ last' = Record("rerun", "ok", None, None)
    /\ dupFetches' = NoDupFetches
    /\ userTag' = NoUserTag
    /\ UNCHANGED <<session_state, drive, rgb, image_id, lagging, staleLeft,
                   clicksLeft, tagged, nTag, nUndo, lastTagItem>>

(***************************************************************************)
(* The tag metrics (lines 373-387), rendered when the image loop has ended *)
(* with an image.  A delta is <<>> for None and <<tot>> for a number.      *)
(***************************************************************************)
delta_calc(tag) ==
    IF tag = session_state.consec.name
    THEN <<session_state.consec.tot>> ELSE <<>>

\* the delta= argument of each st.metric call, by the counter it is shown on
metric_delta ==
    [Boo |-> delta_calc("Boo"), Simba |-> delta_calc("Simba"),
     Discard |-> delta_calc("Discard"), Undo |-> delta_calc("Undo")]
        @@ ("Auto-Discard" :> delta_calc("Discard"))

Next ==
    \/ FetchEmpty
    \/ \E id \in Images : FetchDuplicate(id)
    \/ \E id \in Images, outcome \in TagOutcomes : FetchAutoDiscard(id, outcome)
    \/ \E id \in Images : FetchReady(id)
    \/ \E tag_name \in ButtonTags, outcome \in TagOutcomes :
           TagClick(tag_name, outcome)
    \/ \E outcome \in UndoOutcomes : UndoClick(outcome)
    \/ Rerun

Spec == Init /\ [][Next]_vars

(***************************************************************************)
(* A drive whose listings show every move at once and whose calls succeed. *)
(* The while loop of lines 301-327 goes on to its next iteration as long   *)
(* as image_not_ready is True, hence the weak fairness of its iterations.  *)
(***************************************************************************)
InitAccurate == InitSession(SortedImages, 0)

IterationReliable ==
    \/ FetchEmpty
    \/ \E id \in Images : FetchAutoDiscard(id, "ok")
    \/ \E id \in Images : FetchReady(id)

NextReliable ==
    \/ IterationReliable
    \/ \E tag_name \in ButtonTags : TagClick(tag_name, "ok")
    \/ UndoClick("ok")
    \/ Rerun

SpecReliable ==
    InitAccurate /\ [][NextReliable]_vars /\ WF_vars(IterationReliable)

(***************************************************************************)
(* A drive on which every move to the auto-discard folder fails in         *)
(* files().update (the exception is caught at lines 178-181); other calls  *)
(* succeed or fail, and listings may lag, as in Spec.                      *)
(***************************************************************************)
IterationDiscardFails ==
    \/ FetchEmpty
    \/ \E id \in Images : FetchDuplicate(id)
    \/ \E id \in Images : FetchAutoDiscard(id, "move_failed")
    \/ \E id \in Images : FetchReady(id)

NextDiscardFails ==
    \/ IterationDiscardFails
    \/ \E tag_name \in ButtonTags, outcome \in TagOutcomes :
           TagClick(tag_name, outcome)
    \/ \E outcome \in UndoOutcomes : UndoClick(outcome)
    \/ Rerun

SpecDiscardFails ==
    Init /\ [][NextDiscardFails]_vars /\ WF_vars(IterationDiscardFails)

(***************************************************************************)
(* brightness() on its own: the root folder holds images of one colour,    *)
(* a grey of any level or one of a few other colours, and the loop fetches *)
(* one and computes image_brightness (lines 304, 318).                     *)
(***************************************************************************)
Greys == {<<v, v, v>> : v \in 0..255}

Colours == {<<255, 0, 0>>, <<0, 255, 0>>, <<0, 0, 255>>, <<10, 20, 30>>}

InitBrightness ==
    InitSession({[id \in Images |-> mean] : mean \in Greys \cup Colours}, 0)

MeasureBrightness(id) ==
    /\ pc = "loop"
    /\ id \in Listed
    /\ last' = Record("brightness", brightness(rgb[id]), id, None)
    /\ UNCHANGED <<session_state, drive, rgb, pc, duplicate, image_id, lagging,
                   staleLeft, clicksLeft, tagged, nTag, nUndo, userTag,
                   lastTagItem, dupFetches>>

NextBrightness == \E id \in Images : MeasureBrightness(id)

SpecBrightness == InitBrightness /\ [][NextBrightness]_vars

(***************************************************************************)
(* Properties.                                                             *)
(***************************************************************************)
Succeeded(op) == last.op = op /\ last.result = "ok"

NoPreviousTag ==
    /\ session_state.previous_tag.image_name = None
    /\ session_state.previous_tag.image_id = None
    /\ session_state.previous_tag.tag_name = None

\* C1: when the storage call of tag_image or of undo_tag_image fails, the
\* tag totals, the streak and the previous tag are what they were before the
\* call.
C1_FailedMoveKeepsLedger ==
    (last.op \in {"tag", "undo"} /\ last.result \in {"move_failed", "raised"})
        => session_state = last.pre

\* a failed undo of a tag, and a failed tag after an earlier successful one
C1_Witness ==
    /\ last.op = "undo"
    /\ last.result = "raised"
    /\ session_state.stats[last.tag_name] > 0
    /\ session_state.consec.tot > 0

\* C2: an undo requested when no tag has succeeded since the last successful
\* undo (or since the session started) reports "nothing to undo" and changes
\* neither the session data nor the drive; and in such a state there is no
\* previous tag.
C2_OneLevelOfUndo ==
    /\ ~tagged => NoPreviousTag
    /\ (last.op = "undo" /\ ~last.preTagged)
           => /\ last.result = "nothing"
              /\ session_state = last.pre
              /\ drive = last.preDrive

\* an undo requested right after a successful undo
C2_Witness ==
    /\ last.op = "undo"
    /\ ~last.preTagged
    /\ nUndo > 0
    /\ last.result = "nothing"

\* C3: a successful undo after the successful tag_image(.., L) gives stats[L]
\* the value it had before that tag, adds 1 to stats["Undo"], changes no other
\* total and clears the previous tag.
C3_UndoRestoresCount ==
    Succeeded("undo")
        => /\ session_state.stats[lastTagItem.tag_name]
                  = lastTagItem.stats[lastTagItem.tag_name]
           /\ session_state.stats["Undo"] = last.pre.stats["Undo"] + 1
           /\ \A t \in StatNames \ {lastTagItem.tag_name, "Undo"} :
                  session_state.stats[t] = last.pre.stats[t]
           /\ NoPreviousTag

\* an undo of a tag made when totals were not zero
C3_Witness ==
    /\ Succeeded("undo")
    /\ lastTagItem.stats[lastTagItem.tag_name] > 0
    /\ last.pre.stats["Undo"] > 0

\* C4: after a successful tag_image of an image followed by a successful
\* undo, the image is in the root folder and in no tag folder.
C4_UndoMovesBackToRoot ==
    Succeeded("undo") => drive[lastTagItem.image_id] = {CATMON_PICS_FOLDER_ID}

\* the image was last tagged by the Simba button, after a tag as Boo
C4_Witness ==
    /\ Succeeded("undo")
    /\ lastTagItem.tag_name = "Simba"
    /\ last.preDrive[lastTagItem.image_id] = {tag_folder_ids_d["Simba"]}
    /\ drive[lastTagItem.image_id] = {CATMON_PICS_FOLDER_ID}

\* C5: when the user tags the shown image and their next action is Undo,
\* the undo moves back that image and takes 1 off the total of that tag.
C5_UndoRevertsUserTag ==
    (Succeeded("undo") /\ last.preUserTag.image_id # None)
        => /\ last.image_id = last.preUserTag.image_id
           /\ last.tag_name = last.preUserTag.tag_name
           /\ CATMON_PICS_FOLDER_ID \in drive[last.preUserTag.image_id]
           /\ session_state.stats[last.preUserTag.tag_name]
                  = last.pre.stats[last.preUserTag.tag_name] - 1

RECURSIVE SumOver(_, _)
SumOver(f, S) ==
    IF S = {} THEN 0
    ELSE LET x == CHOOSE y \in S : TRUE IN f[x] + SumOver(f, S \ {x})

\* C6: while no undo has succeeded, stats[tag] is the number of successful
\* tag_image calls with that tag, and stats["Undo"] is 0.
C6_CountsEqualCalls ==
    nUndo = 0
        => /\ \A t \in TagNames : session_state.stats[t] = nTag[t]
           /\ session_state.stats["Undo"] = 0

\* three successful tags, two of them with the same tag
C6_Witness ==
    /\ nUndo = 0
    /\ \E t \in TagNames : nTag[t] = 2
    /\ SumOver(nTag, TagNames) = 3
    /\ Succeeded("tag")

\* C7, as claimed: the sum of the five totals is the number of successful
\* tags plus the number of successful undos.
C7_SumIsTagsPlusUndos ==
    SumOver(session_state.stats, StatNames) = SumOver(nTag, TagNames) + nUndo

\* C7, amended: the sum of the five totals is the number of successful tags;
\* a successful undo leaves the sum as it is.
C7_SumIsTags ==
    SumOver(session_state.stats, StatNames) = SumOver(nTag, TagNames)

\* tags and an undo have succeeded
C7_Witness ==
    /\ Succeeded("undo")
    /\ SumOver(nTag, TagNames) = 2
    /\ SumOver(session_state.stats, StatNames) = 2

\* C8: a successful tag_image(.., L) makes the streak (L, n + 1) when it was
\* (L, n), and (L, 1) otherwise.
C8_StreakAfterTag ==
    Succeeded("tag")
        => session_state.consec =
               IF last.pre.consec.name = last.tag_name
               THEN [name |-> last.tag_name, tot |-> last.pre.consec.tot + 1]
               ELSE [name |-> last.tag_name, tot |-> 1]

\* A, A, A then B: the streak was (A, 3) and is (B, 1)
C8_Witness ==
    /\ Succeeded("tag")
    /\ last.pre.consec.tot = 3
    /\ last.pre.consec.name # last.tag_name
    /\ last.pre.stats[last.pre.consec.name] = 3
    /\ session_state.consec = [name |-> last.tag_name, tot |-> 1]

\* C9: a successful undo takes 1 off the length of the streak and keeps its
\* name, except that a streak of length 1 becomes ("Undo", 1).
C9_StreakAfterUndo ==
    Succeeded("undo")
        => session_state.consec =
               IF last.pre.consec.tot = 1
               THEN [name |-> "Undo", tot |-> 1]
               ELSE [name |-> last.pre.consec.name,
                     tot |-> last.pre.consec.tot - 1]

\* tag A, tag A, undo: stats[A] = 1 and the streak is (A, 1)
C9_Witness ==
    /\ Succeeded("undo")
    /\ last.pre.consec = [name |-> "Boo", tot |-> 2]
    /\ session_state.stats["Boo"] = 1
    /\ session_state.consec = [name |-> "Boo", tot |-> 1]
    /\ nTag["Boo"] = 2
    /\ SumOver(nTag, TagNames) = 2

\* C10: the length of the streak is never negative, and it is 0 only while
\* the streak has no name, which is only before the first successful tag.
C10_StreakLength ==
    /\ session_state.consec.tot >= 0
    /\ session_state.consec.tot = 0
           => /\ session_state.consec.name = None
              /\ SumOver(nTag, TagNames) = 0

\* the undo of a streak of length 1: the length does not stay at 0
C10_Witness ==
    /\ Succeeded("undo")
    /\ last.pre.consec.tot = 1
    /\ session_state.consec.tot = 1
    /\ session_state.consec.name = "Undo"

\* the last operation was an iteration of the image loop on image last.image_id
LoopStep ==
    \/ last.op = "fetch" /\ last.result # "empty"
    \/ last.op = "tag" /\ last.tag_name = "Auto-Discard"

\* that iteration did not request another image because of a duplicate
LoopStepProcessed == LoopStep /\ last.result # "duplicate"

\* C11: an image shown for tagging has a brightness above the threshold; an
\* image fetched by the loop and not skipped as a duplicate whose brightness
\* is at or below the threshold goes to tag_image with 'Auto-Discard', and
\* the loop goes on unless the call raised.
C11_DarkImagesAutoDiscarded ==
    /\ pc = "ready"
           => BrightnessSq(rgb[image_id])
                  > 1000 * IMAGE_BRIGHTNESS_THRESHOLD * IMAGE_BRIGHTNESS_THRESHOLD
    /\ LoopStepProcessed
           => IF BrightnessSq(rgb[last.image_id])
                     <= 1000 * IMAGE_BRIGHTNESS_THRESHOLD
                             * IMAGE_BRIGHTNESS_THRESHOLD
              THEN /\ last.op = "tag"
                   /\ last.tag_name = "Auto-Discard"
                   /\ last.result # "raised" => pc = "loop"
                   /\ last.result = "ok"
                          => drive[last.image_id]
                                 = {tag_folder_ids_d["Auto-Discard"]}
              ELSE /\ last.op = "fetch"
                   /\ last.result = "ready"
                   /\ pc = "ready"
                   /\ image_id = last.image_id

\* an image of brightness exactly 25 has been auto-discarded and a brighter
\* one is shown
C11_Witness ==
    /\ pc = "ready"
    /\ rgb[image_id] = <<26, 26, 26>>
    /\ \E id \in Images :
           /\ rgb[id] = <<25, 25, 25>>
           /\ drive[id] = {tag_folder_ids_d["Auto-Discard"]}
    /\ session_state.stats["Auto-Discard"] = 1

\* the last operation was an iteration of the loop on the image of the
\* previous tag
LoopStepOnDuplicate ==
    LoopStep /\ last.image_id = last.pre.previous_tag.image_id

\* C12 as claimed: a duplicate is skipped until that image has been fetched
\* as a duplicate 3 times in this run of the loop, and is processed on its
\* 3rd duplicate fetch.
C12_ThirdFetchOfDuplicate ==
    LoopStepOnDuplicate
        => /\ dupFetches.image_id = last.image_id
           /\ last.result = "duplicate" <=> dupFetches.n < DUPLICATE_LIMIT
           /\ last.result # "duplicate" => dupFetches.n = DUPLICATE_LIMIT

\* C12: a duplicate is skipped while the duplicate counter of this run of
\* the loop, which counts the duplicate fetches of any image, is below 3 and
\* is processed once the counter has reached 3; so a run skips at most 2
\* fetches.
C12_DuplicateCounterGuard ==
    /\ dupFetches.n <= duplicate
    /\ LoopStepOnDuplicate
           => /\ duplicate >= 1
              /\ last.result = "duplicate" <=> duplicate < DUPLICATE_LIMIT

\* the image of the previous tag is processed on its 3rd duplicate fetch
C12_Witness ==
    /\ LoopStepOnDuplicate
    /\ last.result # "duplicate"
    /\ dupFetches.n = 3
    /\ duplicate = 3

\* C13: a move that failed in tag_image is not issued again for the same
\* image and tag by the image loop, that is without a new click.
C13_NoAutomaticRetry ==
    [][(pc = "loop" /\ last.op = "tag" /\ last.result = "move_failed")
           => ~(/\ last'.op = "tag"
                /\ last'.image_id = last.image_id
                /\ last'.tag_name = last.tag_name)]_vars

AllDark == \A id \in Images : TooDark(rgb[id])

C14_Safe ==
    /\ last.result = "empty" => pc = "stopped" /\ InRoot = {}
    /\ (last.op = "tag" /\ last.tag_name = "Auto-Discard")
           => /\ drive[last.image_id] = {tag_folder_ids_d["Auto-Discard"]}
              /\ pc = "loop"
    /\ pc = "ready" => image_id \in InRoot /\ ~TooDark(rgb[image_id])
    /\ session_state.stats["Auto-Discard"]
           = Cardinality({id \in Images :
                 drive[id] = {tag_folder_ids_d["Auto-Discard"]}})
    /\ AllDark
           => /\ pc # "ready"
              /\ pc = "stopped"
                     => /\ last.result = "empty"
                        /\ session_state.stats["Auto-Discard"] = NumImages

\* C14: with listings that show every move and moves that succeed, the loop
\* auto-discards each dark image it fetches once, shows a brighter image if
\* it fetches one, stops with the error of the empty listing only when the
\* root folder is empty, which it does after as many auto-discards as there
\* are images when all are dark, and does not go on for ever.
C14_DarkRootExhausted ==
    []C14_Safe /\ (pc = "loop" ~> pc # "loop")

\* every image was dark and auto-discarded and the listing came back empty
C14_Witness ==
    /\ AllDark
    /\ pc = "stopped"
    /\ last.result = "empty"
    /\ \A id \in Images : drive[id] = {tag_folder_ids_d["Auto-Discard"]}

\* the last operation computed last.result as the brightness of an image
\* whose channel means are all v
MeasuredGrey(v) ==
    /\ last.op = "brightness"
    /\ rgb[last.image_id] = <<v, v, v>>

\* the square of the float x is 0.299 r^2 + 0.587 g^2 + 0.114 b^2 to within
\* 2^-50 of it
CloseToFormula(x, mean) ==
    LET sq == BigMul(Limbs(1000), BigMul(x.m, x.m))
        exact == BigShl(Limbs(BrightnessSq(mean)), 0 - 2 * x.e)
        diff == IF BigLess(sq, exact)
                THEN BigSub(exact, sq) ELSE BigSub(sq, exact)
    IN  ~BigLess(exact, BigShl(diff, 50))

\* C15 as claimed: the brightness of an image whose channel means are all v
\* is v, and the image is auto-discarded when v is 25.
C15_GreyGivesItsLevel ==
    \A v \in 0..255 :
        MeasuredGrey(v)
            => /\ last.result = FloatOfInt(v)
               /\ v = IMAGE_BRIGHTNESS_THRESHOLD
                      => FloatLeq(last.result,
                                  FloatOfInt(IMAGE_BRIGHTNESS_THRESHOLD))

\* C15: the brightness is the square root of the weighted sum of squares up
\* to the rounding of floats; for channel means all v it is the float v or
\* the float just below it, it is 0 for black, 25 for v = 25, which is
\* auto-discarded, and the float just below 255 for white; for these
\* images it is at most the threshold exactly when v <= 25.
C15_BrightnessOfMeans ==
    last.op = "brightness"
        => /\ CloseToFormula(last.result, rgb[last.image_id])
           /\ FloatLeq(last.result, FloatOfInt(IMAGE_BRIGHTNESS_THRESHOLD))
                  <=> TooDark(rgb[last.image_id])
           /\ \A v \in 0..255 :
                  MeasuredGrey(v)
                      => /\ last.result
                                \in {FloatOfInt(v), FloatBelow(FloatOfInt(v))}
                         /\ v \in {0, IMAGE_BRIGHTNESS_THRESHOLD}
                                => last.result = FloatOfInt(v)
                         /\ v = 255
                                => last.result = FloatBelow(FloatOfInt(v))

\* the brightness of a grey of level 25 is 25 and the image is too dark
C15_Witness ==
    /\ MeasuredGrey(IMAGE_BRIGHTNESS_THRESHOLD)
    /\ last.result = FloatOfInt(IMAGE_BRIGHTNESS_THRESHOLD)
    /\ FloatLeq(last.result, FloatOfInt(IMAGE_BRIGHTNESS_THRESHOLD))

\* C16: the image loop ends: it comes to show an image or to stop on an
\* empty listing.
C16_LoopTerminates ==
    pc = "loop" ~> (pc = "ready" \/ (pc = "stopped" /\ last.result = "empty"))

\* C17: the streak length is shown on exactly the counter named by the
\* streak, and on no counter when the streak has no name.
C17_DeltaOnStreakCounter ==
    pc = "ready"
        => \A t \in StatNames :
               metric_delta[t] =
                   IF t = session_state.consec.name
                   THEN <<session_state.consec.tot>> ELSE <<>>

\* C18: each tag total is the number of images in the folder of the tag.
C18_CountsMatchFolders ==
    \A t \in TagNames :
        session_state.stats[t]
            = Cardinality({id \in Images : tag_folder_ids_d[t] \in drive[id]})

\* C19: an image is not tagged 'Auto-Discard' while it is in the
\* auto-discard folder, that is twice without an undo in between.
C19_AutoDiscardedOnce ==
    (Succeeded("tag") /\ last.tag_name = "Auto-Discard")
        => tag_folder_ids_d["Auto-Discard"] \notin last.preDrive[last.image_id]

\* C20: the fields of previous_tag are all None or all set, and when they
\* are set the streak has the name of the previous tag and a length from 1
\* to the total of that tag.
C20_PreviousTagAndStreak ==
    LET p == session_state.previous_tag
        c == session_state.consec
    IN  /\ \/ NoPreviousTag
           \/ p.image_name # None /\ p.image_id # None /\ p.tag_name # None
        /\ ~NoPreviousTag
               => /\ p.tag_name = c.name
                  /\ 1 <= c.tot
                  /\ c.tot <= session_state.stats[c.name]

\* a second tag in a row with the same name, after an undo of another tag
C20_Witness ==
    /\ ~NoPreviousTag
    /\ session_state.consec.tot = 2
    /\ session_state.stats[session_state.consec.name] = 2
    /\ nUndo = 1

=============================================================================
